---------------------------- MODULE Spec2Model ----------------------------
(***************************************************************************)
(* Script2Sound: the chunked synthesis pipeline of                         *)
(* backend/app/tts_service.py (TTSService) and its HTTP entry point        *)
(* backend/app/main.py (/generate-audio).                                  *)
(*                                                                         *)
(* A text is a sequence of one-character strings.  Floats are carried as   *)
(* integers in hundredths (speaking_rate 4.0 is 400, pitch -20.0 is        *)
(* -2000).  The chunk limit max_chars is 10000 in the source; the model    *)
(* runs the same code with the limit scaled down to 6, the smallest limit  *)
(* at which a chunk can hold two sentences.                                *)
(*                                                                         *)
(* language_code and the fixed AudioConfig fields (MP3, 24000 Hz, the      *)
(* effects profile) are passed to the engine unchanged and are left out;   *)
(* so is logging, except the voice warning of generate_audio.  The remote  *)
(* engine is any engine: each call either returns one of the values of     *)
(* Audio or raises.                                                        *)
(***************************************************************************)
EXTENDS Integers, Sequences, FiniteSets, TLC

VARIABLES
    entry,           \* "api": POST /generate-audio; "direct": TTSService.text_to_speech
    text,            \* the request's text argument
    voice_name,      \* the request's voice identifier
    speaking_rate,   \* hundredths
    pitch,           \* hundredths
    is_ssml,         \* text_to_speech's is_ssml argument
    pc,              \* "request" | "await" | "returned" | "raised" | "rejected" | "off"
    cleaned,         \* text_to_speech's local text after _clean_text
    chunks,          \* text_to_speech's local chunks
    i,               \* loop index of the chunk whose remote call is awaited
    audio_segments,  \* text_to_speech's local audio_segments
    result,          \* bytes returned by text_to_speech, or None
    error,           \* exception raised to the caller of text_to_speech
    http_status,     \* status of the /generate-audio response, 0 when there is none
    warned,          \* generate_audio logged "Voice validation failed"
    calls,           \* the remote engine's log of synthesize_speech calls, in arrival order
    pending,         \* indexes of the remote calls in flight
    responses,       \* the remote engine's log of what it answered, in answer order
    text_a, text_b,      \* two chunker inputs (SpecMono)
    chunks_a, chunks_b,  \* their chunk lists once computed: <<>> or <<list>>
    requests,        \* SpecConc: the frames of two calls of text_to_speech on one instance
    executor,        \* SpecConc: per call, its lambda in the executor: "idle" | "queued" | "called"
    conc_calls,      \* SpecConc: per call, the synthesize_speech requests the engine received
    conc_responses   \* SpecConc: per call, what the engine answered

pipeline_vars == <<entry, text, voice_name, speaking_rate, pitch, is_ssml, pc,
                   cleaned, chunks, i, audio_segments, result, error,
                   http_status, warned, calls, pending, responses>>
mono_vars == <<text_a, text_b, chunks_a, chunks_b>>
conc_vars == <<requests, executor, conc_calls, conc_responses>>
vars == <<entry, text, voice_name, speaking_rate, pitch, is_ssml, pc,
          cleaned, chunks, i, audio_segments, result, error,
          http_status, warned, calls, pending, responses,
          text_a, text_b, chunks_a, chunks_b,
          requests, executor, conc_calls, conc_responses>>

---------------------------------------------------------------------------
(* Program constants *)

\* self.max_chars (10000 in the source, scaled)
max_chars == 6
\* TextToSpeechRequest.text max_length
max_length == 50000
\* TextToSpeechRequest.text min_length
min_length == 1
\* TextToSpeechRequest.speaking_rate ge=0.25, le=4.0 (hundredths)
rate_ge == 25
rate_le == 400
\* TextToSpeechRequest.pitch ge=-20.0, le=20.0 (hundredths)
pitch_ge == -2000
pitch_le == 2000

\* the value of a text_to_speech call that has not returned bytes
None == <<-1>>

\* the characters str.split() and str.strip() treat as whitespace
Whitespace == {" ", "\t", "\n", "\r"}

\* the prolog text_to_speech looks for at the start of a chunk
Prolog == <<"<", "?", "x", "m", "l">>

\* validate_voice's allow-list
common_voices == {"en-US-Neural2-A", "en-US-Neural2-C", "en-US-Neural2-D",
                  "en-US-Neural2-E", "en-US-Neural2-F", "en-US-Neural2-G",
                  "en-US-Neural2-H", "en-US-Neural2-I", "en-US-Neural2-J"}

---------------------------------------------------------------------------
(* Python's str operations, on sequences of characters *)

RECURSIVE lstrip(_)
lstrip(s) ==
    IF Len(s) > 0 /\ Head(s) \in Whitespace THEN lstrip(Tail(s)) ELSE s

RECURSIVE rstrip(_)
rstrip(s) ==
    IF Len(s) > 0 /\ s[Len(s)] \in Whitespace
    THEN rstrip(SubSeq(s, 1, Len(s) - 1))
    ELSE s

\* str.strip()
strip(s) == rstrip(lstrip(s))

\* str.split() with no separator: the maximal runs of non-whitespace
RECURSIVE split_ws(_, _)
split_ws(s, word) ==
    IF Len(s) = 0
    THEN (IF Len(word) = 0 THEN <<>> ELSE <<word>>)
    ELSE IF Head(s) \in Whitespace
         THEN (IF Len(word) = 0 THEN <<>> ELSE <<word>>) \o split_ws(Tail(s), <<>>)
         ELSE split_ws(Tail(s), Append(word, Head(s)))

\* sep.join(parts) for a one-character separator
RECURSIVE join(_, _)
join(sep, parts) ==
    IF Len(parts) = 0 THEN <<>>
    ELSE IF Len(parts) = 1 THEN parts[1]
    ELSE parts[1] \o <<sep>> \o join(sep, Tail(parts))

\* str.replace(old, new) for one-character old and new
replace(s, old, new) ==
    [k \in 1..Len(s) |-> IF s[k] = old THEN new ELSE s[k]]

\* str.split(sep) for a one-character separator: empty pieces are kept
RECURSIVE split(_, _, _)
split(s, sep, piece) ==
    IF Len(s) = 0 THEN <<piece>>
    ELSE IF Head(s) = sep
         THEN <<piece>> \o split(Tail(s), sep, <<>>)
         ELSE split(Tail(s), sep, Append(piece, Head(s)))

\* str.startswith(prefix)
startswith(s, prefix) ==
    Len(s) >= Len(prefix) /\ SubSeq(s, 1, Len(prefix)) = prefix

\* position of the first ">" of s at or after position k, 0 when there is none
RECURSIVE first_gt(_, _)
first_gt(s, k) ==
    IF k > Len(s) THEN 0
    ELSE IF s[k] = ">" THEN k
    ELSE first_gt(s, k + 1)

\* re.sub(r'<[^>]+>', '', s): leftmost non-overlapping matches; a match at a
\* "<" needs at least one character other than ">" before the closing ">"
RECURSIVE re_sub_tags(_)
re_sub_tags(s) ==
    IF Len(s) = 0 THEN <<>>
    ELSE IF Head(s) = "<" /\ first_gt(s, 2) >= 3
         THEN re_sub_tags(SubSeq(s, first_gt(s, 2) + 1, Len(s)))
         ELSE <<Head(s)>> \o re_sub_tags(Tail(s))

---------------------------------------------------------------------------
(* TTSService._clean_text *)

_clean_text(t) ==
    LET t1 == join(" ", split_ws(t, <<>>))
        t2 == replace(t1, "\n", " ")
        t3 == replace(t2, "\r", " ")
        t4 == replace(t3, "\t", " ")
        t5 == re_sub_tags(t4)
    IN  strip(t5)

---------------------------------------------------------------------------
(* TTSService._chunk_text *)

\* the sentence split of line 51
sentences_of(t) ==
    split(replace(replace(t, "!", "."), "?", "."), ".", <<>>)

\* chunk_step with the fit test of line 61 taken without the ". " it appends
chunk_step_no_separator(st, raw_sentence) ==
    LET sentence   == strip(raw_sentence)
        test_chunk == st.current_chunk \o sentence \o <<".", " ">>
    IN  IF Len(sentence) = 0 THEN st
        ELSE IF Len(st.current_chunk \o sentence) <= max_chars
             THEN [st EXCEPT !.current_chunk = test_chunk]
             ELSE [chunks |-> IF Len(st.current_chunk) > 0
                              THEN Append(st.chunks, strip(st.current_chunk))
                              ELSE st.chunks,
                   current_chunk |-> sentence \o <<".", " ">>]

\* chunk_step that closes the chunk at line 66 and forgets to start the next
\* one with the sentence that did not fit
chunk_step_drop_sentence(st, raw_sentence) ==
    LET sentence   == strip(raw_sentence)
        test_chunk == st.current_chunk \o sentence \o <<".", " ">>
    IN  IF Len(sentence) = 0 THEN st
        ELSE IF Len(test_chunk) <= max_chars
             THEN [st EXCEPT !.current_chunk = test_chunk]
             ELSE [chunks |-> IF Len(st.current_chunk) > 0
                              THEN Append(st.chunks, strip(st.current_chunk))
                              ELSE st.chunks,
                   current_chunk |-> <<>>]

\* chunk_step with the fit test of line 61 inverted
chunk_step_inverted(st, raw_sentence) ==
    LET sentence   == strip(raw_sentence)
        test_chunk == st.current_chunk \o sentence \o <<".", " ">>
    IN  IF Len(sentence) = 0 THEN st
        ELSE IF Len(test_chunk) > max_chars
             THEN [st EXCEPT !.current_chunk = test_chunk]
             ELSE [chunks |-> IF Len(st.current_chunk) > 0
                              THEN Append(st.chunks, strip(st.current_chunk))
                              ELSE st.chunks,
                   current_chunk |-> sentence \o <<".", " ">>]

\* chunk_step that cuts a sentence too long for a chunk down to the limit
chunk_step_truncating(st, raw_sentence) ==
    LET whole      == strip(raw_sentence)
        sentence   == IF Len(whole) + 2 > max_chars
                      THEN SubSeq(whole, 1, max_chars - 2) ELSE whole
        test_chunk == st.current_chunk \o sentence \o <<".", " ">>
    IN  IF Len(sentence) = 0 THEN st
        ELSE IF Len(test_chunk) <= max_chars
             THEN [st EXCEPT !.current_chunk = test_chunk]
             ELSE [chunks |-> IF Len(st.current_chunk) > 0
                              THEN Append(st.chunks, strip(st.current_chunk))
                              ELSE st.chunks,
                   current_chunk |-> sentence \o <<".", " ">>]

\* chunk_step with the fit test of line 61 written as len(test_chunk) < max_chars
chunk_step_strict(st, raw_sentence) ==
    LET sentence   == strip(raw_sentence)
        test_chunk == st.current_chunk \o sentence \o <<".", " ">>
    IN  IF Len(sentence) = 0 THEN st
        ELSE IF Len(test_chunk) < max_chars
             THEN [st EXCEPT !.current_chunk = test_chunk]
             ELSE [chunks |-> IF Len(st.current_chunk) > 0
                              THEN Append(st.chunks, strip(st.current_chunk))
                              ELSE st.chunks,
                   current_chunk |-> sentence \o <<".", " ">>]

\* one iteration of the loop of lines 54-67 on the loop state
\* [chunks, current_chunk]
chunk_step(st, raw_sentence) ==
    LET sentence   == strip(raw_sentence)
        test_chunk == st.current_chunk \o sentence \o <<".", " ">>
    IN  IF Len(sentence) = 0 THEN st
        ELSE IF Len(test_chunk) <= max_chars
             THEN [st EXCEPT !.current_chunk = test_chunk]
             ELSE [chunks |-> IF Len(st.current_chunk) > 0
                              THEN Append(st.chunks, strip(st.current_chunk))
                              ELSE st.chunks,
                   current_chunk |-> sentence \o <<".", " ">>]

RECURSIVE chunk_loop(_, _)
chunk_loop(st, sentences) ==
    IF Len(sentences) = 0 THEN st
    ELSE chunk_loop(chunk_step(st, Head(sentences)), Tail(sentences))

\* lines 49-74: the sentence loop and the last chunk
chunk_sentences(t) ==
    LET st == chunk_loop([chunks |-> <<>>, current_chunk |-> <<>>],
                         sentences_of(t))
    IN  IF Len(st.current_chunk) > 0
        THEN Append(st.chunks, strip(st.current_chunk))
        ELSE st.chunks

\* _chunk_text with the test of line 46 written as len(text) < max_chars
_chunk_text_strict(t) ==
    IF Len(t) < max_chars THEN <<t>> ELSE chunk_sentences(t)

_chunk_text(t) ==
    IF Len(t) <= max_chars THEN <<t>> ELSE chunk_sentences(t)

---------------------------------------------------------------------------
(* Inputs *)

\* longest text drawn over the whole alphabet, with every parameter varied
MaxShort == 3
\* longest text drawn over the sentence alphabet, with default parameters
MaxLen == 7
\* most sentences of a text built from whole sentences
MaxSentences == 3
\* longest tail after the prolog of a text that holds the prolog
MaxMarkup == 2
\* longest text of a pair of chunker inputs (SpecMono)
MaxPairLen == 8

ShortAlphabet == {"a", " ", ".", "!", "?", "<", ">"}
LongAlphabet == {"a", " ", ".", "?"}
PairAlphabet == {"a", "."}

SeqsOf(S, lo, hi) == UNION {[1..n -> S] : n \in lo..hi}

ShortTexts == SeqsOf(ShortAlphabet, 0, MaxShort)
LongTexts == SeqsOf(LongAlphabet, MaxShort + 1, MaxLen)
\* texts built from whole sentences: each a run of letters shorter than, as
\* long as or longer than the limit, closed by a terminator
Letters(n) == [k \in 1..n |-> "a"]
SentencePool ==
    {Letters(1), Letters(max_chars \div 2), Letters(max_chars), Letters(max_chars + 1)}
ClosedSentences == {sn \o <<tm>> : sn \in SentencePool, tm \in {".", "?"}}
RECURSIVE SentenceRuns(_)
SentenceRuns(n) ==
    IF n = 0 THEN {<<>>}
    ELSE {run \o cs : run \in SentenceRuns(n - 1), cs \in ClosedSentences}
SentenceTexts == UNION {SentenceRuns(n) : n \in 1..MaxSentences}

\* most sentences of the text of each of two concurrent requests
MaxConcSentences == 2
\* the texts of a concurrent request, written in its own letter: up to
\* MaxConcSentences sentences, or a blank text
RECURSIVE ConcRuns(_, _)
ConcRuns(c, n) ==
    IF n = 0 THEN {<<>>}
    ELSE {run \o [k \in 1..m |-> c] \o <<".">> :
              run \in ConcRuns(c, n - 1),
              m \in {1, max_chars \div 2, max_chars \div 2 + 1}}
ConcTexts(c) == UNION {ConcRuns(c, n) : n \in 1..MaxConcSentences} \cup {<<" ">>}
\* the letter, and the parameters, of each concurrent request
ConcLetter == <<"a", "b">>
ConcParams ==
    <<[voice_name |-> "en-US-Neural2-D", speaking_rate |-> 100, pitch |-> 0],
      [voice_name |-> "en-US-Wavenet-A", speaking_rate |-> 150, pitch |-> -200]>>
\* what the engine may answer to a call of request r: audio marked with r
ConcAudio(r) == {<<10 * r + 1>>, <<10 * r + 2, 10 * r + 3>>}

\* texts that hold the prolog, after at most one space
MarkupAlphabet == {"a", " ", "?", ">"}
MarkupTexts ==
    {pre \o Prolog \o suf : pre \in SeqsOf({" "}, 0, 1),
                            suf \in SeqsOf(MarkupAlphabet, 0, MaxMarkup)}

\* chunker inputs that hold at least one sentence
PairTexts ==
    {t \in SeqsOf(PairAlphabet, 1, MaxPairLen) : \E k \in 1..Len(t) : t[k] = "a"}

RateValues == {10, 100, 500}
PitchValues == {-2500, 0}
VoiceNames == {"en-US-Neural2-D", "en-US-Wavenet-A"}
\* the audio_content values the remote engine may return
Audio == {<<1>>, <<2, 3>>}

---------------------------------------------------------------------------
(* TTSService.validate_voice and the request validation of /generate-audio *)

validate_voice(v) == v \in common_voices

\* the Field constraints of TextToSpeechRequest
request_valid(t, rate, p) ==
    /\ Len(t) >= min_length
    /\ Len(t) <= max_length
    /\ rate >= rate_ge
    /\ rate <= rate_le
    /\ p >= pitch_ge
    /\ p <= pitch_le

\* generate_audio's response status for the outcome of text_to_speech; a
\* direct caller of text_to_speech gets no HTTP response
http_response(err) ==
    IF entry # "api" THEN 0
    ELSE IF err = "none" THEN 200
    ELSE IF err = "ValueError" THEN 400
    ELSE 500

---------------------------------------------------------------------------
(* TTSService.text_to_speech *)

\* the guard of line 100 written as: not text
is_blank_unstripped(t) == Len(t) = 0

\* the guard of line 100: not text.strip()
is_blank(t) == Len(strip(t)) = 0

\* synthesis_call that trusts the request's flag alone (line 117 without the
\* startswith test)
synthesis_call_by_flag(cs, k) ==
    [chunk_index   |-> k,
     kind          |-> IF is_ssml THEN "ssml" ELSE "text",
     content       |-> cs[k + 1],
     voice         |-> voice_name,
     speaking_rate |-> speaking_rate,
     pitch         |-> pitch]

\* the synthesize_speech request built for chunk k (0-based) of cs
synthesis_call(cs, k) ==
    [chunk_index   |-> k,
     kind          |-> IF is_ssml /\ startswith(strip(cs[k + 1]), Prolog)
                       THEN "ssml" ELSE "text",
     content       |-> cs[k + 1],
     voice         |-> voice_name,
     speaking_rate |-> speaking_rate,
     pitch         |-> pitch]

\* a loop that steps over every other chunk
next_index_skipping(k) == k + 2

\* enumerate(chunks): the index after k
next_index(k) == k + 1

\* a join that puts each later segment in front of the earlier ones
RECURSIVE b_join_reversed(_)
b_join_reversed(segments) ==
    IF Len(segments) = 0 THEN <<>>
    ELSE b_join_reversed(Tail(segments)) \o Head(segments)

\* b''.join(segments)
RECURSIVE b_join(_)
b_join(segments) ==
    IF Len(segments) = 0 THEN <<>>
    ELSE Head(segments) \o b_join(Tail(segments))

\* text_to_speech from its entry to its first await (or to its end when
\* there is nothing to await)
text_to_speech_begin ==
    IF is_blank(text)
    THEN /\ pc' = "raised"
         /\ error' = "ValueError"
         /\ http_status' = http_response("ValueError")
         /\ UNCHANGED <<cleaned, chunks, i, audio_segments, result, calls, pending>>
    ELSE LET t  == _clean_text(text)
             cs == _chunk_text(t)
         IN  /\ cleaned' = t
             /\ chunks' = cs
             /\ audio_segments' = <<>>
             /\ IF Len(cs) = 0
                THEN /\ pc' = "returned"
                     /\ result' = b_join(<<>>)
                     /\ http_status' = http_response("none")
                     /\ UNCHANGED <<i, error, calls, pending>>
                ELSE /\ pc' = "await"
                     /\ i' = 0
                     /\ calls' = Append(calls, synthesis_call(cs, 0))
                     /\ pending' = pending \cup {0}
                     /\ UNCHANGED <<result, error, http_status>>

\* generate_audio with the voice check of line 115 refusing the request
GenerateAudio_blocking ==
    /\ pc = "request"
    /\ entry = "api"
    /\ IF ~request_valid(text, speaking_rate, pitch)
       THEN /\ pc' = "rejected"
            /\ http_status' = 422
            /\ UNCHANGED <<cleaned, chunks, i, audio_segments, result, error,
                           warned, calls, pending>>
       ELSE IF ~validate_voice(voice_name)
       THEN /\ pc' = "rejected"
            /\ http_status' = 400
            /\ warned' = TRUE
            /\ UNCHANGED <<cleaned, chunks, i, audio_segments, result, error,
                           calls, pending>>
       ELSE /\ warned' = FALSE
            /\ text_to_speech_begin
    /\ UNCHANGED <<entry, text, voice_name, speaking_rate, pitch, is_ssml, responses>>
    /\ UNCHANGED mono_vars
    /\ UNCHANGED conc_vars

\* POST /generate-audio: request validation, the advisory voice check, then
\* text_to_speech (is_ssml is not passed and keeps its default)
GenerateAudio ==
    /\ pc = "request"
    /\ entry = "api"
    /\ IF ~request_valid(text, speaking_rate, pitch)
       THEN /\ pc' = "rejected"
            /\ http_status' = 422
            /\ UNCHANGED <<cleaned, chunks, i, audio_segments, result, error,
                           warned, calls, pending>>
       ELSE /\ warned' = ~validate_voice(voice_name)
            /\ text_to_speech_begin
    /\ UNCHANGED <<entry, text, voice_name, speaking_rate, pitch, is_ssml, responses>>
    /\ UNCHANGED mono_vars
    /\ UNCHANGED conc_vars

\* a direct call of TTSService.text_to_speech
TextToSpeech ==
    /\ pc = "request"
    /\ entry = "direct"
    /\ text_to_speech_begin
    /\ UNCHANGED <<entry, text, voice_name, speaking_rate, pitch, is_ssml, warned,
                   responses>>
    /\ UNCHANGED mono_vars
    /\ UNCHANGED conc_vars

\* the awaited synthesize_speech call returns audio_content: lines 147-154
\* and the next iteration of the loop up to its await
SynthesizeReturn ==
    /\ pc = "await"
    /\ i \in pending
    /\ \E audio_content \in Audio :
         LET segs == Append(audio_segments, audio_content)
             k    == next_index(i)
         IN  /\ responses' = Append(responses, [chunk_index |-> i, status |-> "ok",
                                                   audio_content |-> audio_content])
             /\ audio_segments' = segs
             /\ IF k < Len(chunks)
                THEN /\ pc' = "await"
                     /\ i' = k
                     /\ calls' = Append(calls, synthesis_call(chunks, k))
                     /\ pending' = (pending \ {i}) \cup {k}
                     /\ UNCHANGED <<result, http_status>>
                ELSE /\ pc' = "returned"
                     /\ result' = b_join(segs)
                     /\ http_status' = http_response("none")
                     /\ pending' = pending \ {i}
                     /\ UNCHANGED <<i, calls>>
    /\ UNCHANGED <<entry, text, voice_name, speaking_rate, pitch, is_ssml,
                   cleaned, chunks, error, warned>>
    /\ UNCHANGED mono_vars
    /\ UNCHANGED conc_vars

\* a failure handler that issues the failed call once more instead of raising
SynthesizeFail_retry ==
    /\ pc = "await"
    /\ i \in pending
    /\ Len(calls) <= Len(chunks)
    /\ calls' = Append(calls, synthesis_call(chunks, i))
    /\ responses' = Append(responses, [chunk_index |-> i, status |-> "error",
                                       audio_content |-> <<>>])
    /\ UNCHANGED <<entry, text, voice_name, speaking_rate, pitch, is_ssml, pc,
                   cleaned, chunks, i, audio_segments, result, error,
                   http_status, warned, pending>>
    /\ UNCHANGED mono_vars
    /\ UNCHANGED conc_vars

\* the awaited synthesize_speech call raises: lines 156-158, and
\* generate_audio's except clauses
SynthesizeFail ==
    /\ pc = "await"
    /\ i \in pending
    /\ pc' = "raised"
    /\ error' = "RemoteEngineError"
    /\ http_status' = http_response("RemoteEngineError")
    /\ pending' = pending \ {i}
    /\ responses' = Append(responses, [chunk_index |-> i, status |-> "error",
                                       audio_content |-> <<>>])
    /\ UNCHANGED <<entry, text, voice_name, speaking_rate, pitch, is_ssml,
                   cleaned, chunks, i, audio_segments, result, warned, calls>>
    /\ UNCHANGED mono_vars
    /\ UNCHANGED conc_vars

---------------------------------------------------------------------------
(* Initial states *)

\* no concurrent calls
NoRequests ==
    /\ requests = <<>>
    /\ executor = <<>>
    /\ conc_calls = <<>>
    /\ conc_responses = <<>>

InitLocals ==
    /\ cleaned = <<>>
    /\ chunks = <<>>
    /\ i = 0
    /\ audio_segments = <<>>
    /\ result = None
    /\ error = "none"
    /\ http_status = 0
    /\ warned = FALSE
    /\ calls = <<>>
    /\ pending = {}
    /\ responses = <<>>

\* one request: a short text over the whole alphabet with every parameter
\* varied, or a longer text over the sentence alphabet with the defaults of
\* text_to_speech (drawn character by character, or built from whole
\* sentences), or a text that holds the prolog, flagged as markup or not
Init ==
    /\ \/ /\ text \in ShortTexts
          /\ entry \in {"api", "direct"}
          /\ speaking_rate \in RateValues
          /\ pitch \in PitchValues
          /\ voice_name \in (IF entry = "api" THEN VoiceNames ELSE {"en-US-Neural2-D"})
          /\ is_ssml \in (IF entry = "direct" THEN BOOLEAN ELSE {FALSE})
       \/ /\ text \in LongTexts \cup SentenceTexts
          /\ entry = "direct"
          /\ speaking_rate = 100
          /\ pitch = 0
          /\ voice_name = "en-US-Neural2-D"
          /\ is_ssml = FALSE
       \/ /\ text \in MarkupTexts
          /\ entry \in {"api", "direct"}
          /\ speaking_rate = 100
          /\ pitch = 0
          /\ voice_name = "en-US-Neural2-D"
          /\ is_ssml \in (IF entry = "direct" THEN BOOLEAN ELSE {FALSE})
    /\ pc = "request"
    /\ InitLocals
    /\ text_a = <<>>
    /\ text_b = <<>>
    /\ chunks_a = <<>>
    /\ chunks_b = <<>>
    /\ NoRequests

Next ==
    \/ GenerateAudio
    \/ TextToSpeech
    \/ SynthesizeReturn
    \/ SynthesizeFail

Spec == Init /\ [][Next]_vars

---------------------------------------------------------------------------
(* The chunker applied to two inputs *)

ChunkA ==
    /\ chunks_a = <<>>
    /\ chunks_a' = <<_chunk_text(text_a)>>
    /\ UNCHANGED <<text_a, text_b, chunks_b>>
    /\ UNCHANGED pipeline_vars
    /\ UNCHANGED conc_vars

ChunkB ==
    /\ chunks_b = <<>>
    /\ chunks_b' = <<_chunk_text(text_b)>>
    /\ UNCHANGED <<text_a, text_b, chunks_a>>
    /\ UNCHANGED pipeline_vars
    /\ UNCHANGED conc_vars

InitMono ==
    /\ text_a \in PairTexts
    /\ text_b \in PairTexts
    /\ Len(text_a) <= Len(text_b)
    /\ chunks_a = <<>>
    /\ chunks_b = <<>>
    /\ entry = "direct"
    /\ text = <<>>
    /\ speaking_rate = 100
    /\ pitch = 0
    /\ voice_name = "en-US-Neural2-D"
    /\ is_ssml = FALSE
    /\ pc = "off"
    /\ InitLocals
    /\ NoRequests

NextMono ==
    \/ ChunkA
    \/ ChunkB

SpecMono == InitMono /\ [][NextMono]_vars

---------------------------------------------------------------------------
(* Two concurrent calls of text_to_speech on the one TTSService instance *)

\* the frame of a call of text_to_speech at its entry
NewFrame(t, params) ==
    [text           |-> t,
     voice_name     |-> params.voice_name,
     speaking_rate  |-> params.speaking_rate,
     pitch          |-> params.pitch,
     is_ssml        |-> FALSE,
     pc             |-> "request",
     cleaned        |-> <<>>,
     chunks         |-> <<>>,
     i              |-> 0,
     audio_segments |-> <<>>,
     result         |-> None,
     error          |-> "none"]

\* the synthesize_speech request the lambda of lines 139-143 makes: it reads
\* synthesis_input, voice and audio_config from the frame it closes over
frame_call(f) ==
    [chunk_index   |-> f.i,
     kind          |-> IF f.is_ssml /\ startswith(strip(f.chunks[f.i + 1]), Prolog)
                       THEN "ssml" ELSE "text",
     content       |-> f.chunks[f.i + 1],
     voice         |-> f.voice_name,
     speaking_rate |-> f.speaking_rate,
     pitch         |-> f.pitch]

\* audio_segments kept as one list on the instance, which every call in
\* progress appends to
with_segment_shared(rq, r, audio_content) ==
    [q \in DOMAIN rq |-> [rq[q] EXCEPT !.audio_segments = Append(@, audio_content)]]

\* audio_segments.append(response.audio_content) on the list of call r's frame
with_segment(rq, r, audio_content) ==
    [rq EXCEPT ![r].audio_segments = Append(@, audio_content)]

\* call r of text_to_speech from its entry to its first await
ConcBegin(r) ==
    /\ requests[r].pc = "request"
    /\ IF is_blank(requests[r].text)
       THEN /\ requests' = [requests EXCEPT ![r].pc = "raised",
                                             ![r].error = "ValueError"]
            /\ UNCHANGED executor
       ELSE LET t  == _clean_text(requests[r].text)
                cs == _chunk_text(t)
            IN  IF Len(cs) = 0
                THEN /\ requests' = [requests EXCEPT ![r].cleaned = t,
                                                      ![r].chunks = cs,
                                                      ![r].audio_segments = <<>>,
                                                      ![r].pc = "returned",
                                                      ![r].result = b_join(<<>>)]
                     /\ UNCHANGED executor
                ELSE /\ requests' = [requests EXCEPT ![r].cleaned = t,
                                                      ![r].chunks = cs,
                                                      ![r].audio_segments = <<>>,
                                                      ![r].i = 0,
                                                      ![r].pc = "await"]
                     /\ executor' = [executor EXCEPT ![r] = "queued"]
    /\ UNCHANGED <<conc_calls, conc_responses>>
    /\ UNCHANGED pipeline_vars
    /\ UNCHANGED mono_vars

\* the executor runs the lambda of call r: the engine receives the request
ConcExecute(r) ==
    /\ executor[r] = "queued"
    /\ executor' = [executor EXCEPT ![r] = "called"]
    /\ conc_calls' = [conc_calls EXCEPT ![r] = Append(@, frame_call(requests[r]))]
    /\ UNCHANGED <<requests, conc_responses>>
    /\ UNCHANGED pipeline_vars
    /\ UNCHANGED mono_vars

\* the awaited call of call r returns: lines 147-154 and the next iteration
\* of the loop up to its await
ConcReturn(r) ==
    /\ executor[r] = "called"
    /\ \E audio_content \in ConcAudio(r) :
         LET rq == with_segment(requests, r, audio_content)
             k  == next_index(requests[r].i)
         IN  /\ conc_responses' =
                    [conc_responses EXCEPT ![r] =
                        Append(@, [status |-> "ok", audio_content |-> audio_content])]
             /\ IF k < Len(requests[r].chunks)
                THEN /\ requests' = [rq EXCEPT ![r].i = k]
                     /\ executor' = [executor EXCEPT ![r] = "queued"]
                ELSE /\ requests' =
                            [rq EXCEPT ![r].pc = "returned",
                                       ![r].result = b_join(rq[r].audio_segments)]
                     /\ executor' = [executor EXCEPT ![r] = "idle"]
    /\ UNCHANGED conc_calls
    /\ UNCHANGED pipeline_vars
    /\ UNCHANGED mono_vars

\* the awaited call of call r raises: lines 156-158
ConcFail(r) ==
    /\ executor[r] = "called"
    /\ requests' = [requests EXCEPT ![r].pc = "raised",
                                    ![r].error = "RemoteEngineError"]
    /\ executor' = [executor EXCEPT ![r] = "idle"]
    /\ conc_responses' =
           [conc_responses EXCEPT ![r] =
               Append(@, [status |-> "error", audio_content |-> <<>>])]
    /\ UNCHANGED conc_calls
    /\ UNCHANGED pipeline_vars
    /\ UNCHANGED mono_vars

InitConc ==
    /\ \E ta \in ConcTexts(ConcLetter[1]), tb \in ConcTexts(ConcLetter[2]) :
           requests = <<NewFrame(ta, ConcParams[1]), NewFrame(tb, ConcParams[2])>>
    /\ executor = <<"idle", "idle">>
    /\ conc_calls = <<<<>>, <<>>>>
    /\ conc_responses = <<<<>>, <<>>>>
    /\ entry = "direct"
    /\ text = <<>>
    /\ speaking_rate = 100
    /\ pitch = 0
    /\ voice_name = "en-US-Neural2-D"
    /\ is_ssml = FALSE
    /\ pc = "off"
    /\ InitLocals
    /\ text_a = <<>>
    /\ text_b = <<>>
    /\ chunks_a = <<>>
    /\ chunks_b = <<>>

NextConc ==
    \E r \in {1, 2} :
        \/ ConcBegin(r)
        \/ ConcExecute(r)
        \/ ConcReturn(r)
        \/ ConcFail(r)

SpecConc == InitConc /\ [][NextConc]_vars

---------------------------------------------------------------------------
(* Vocabulary of the properties *)

\* text_to_speech has been entered
Began == pc \in {"await", "returned", "raised"}

\* text_to_speech has computed its chunks
Chunked == pc \in {"await", "returned"} \/ error = "RemoteEngineError"

Terminators == {".", "!", "?"}

\* the pieces of t between sentence terminators
RECURSIVE Pieces(_, _)
Pieces(t, piece) ==
    IF Len(t) = 0 THEN <<piece>>
    ELSE IF Head(t) \in Terminators
         THEN <<piece>> \o Pieces(Tail(t), <<>>)
         ELSE Pieces(Tail(t), Append(piece, Head(t)))

\* t without its leading and trailing whitespace
Trimmed(t) ==
    LET inside == {k \in 1..Len(t) : t[k] \notin Whitespace}
    IN  IF inside = {} THEN <<>>
        ELSE SubSeq(t, CHOOSE k \in inside : \A m \in inside : k <= m,
                       CHOOSE k \in inside : \A m \in inside : k >= m)

\* the non-empty members of a sequence, in order
RECURSIVE NonEmpty(_)
NonEmpty(ss) ==
    IF Len(ss) = 0 THEN <<>>
    ELSE IF Len(Head(ss)) = 0 THEN NonEmpty(Tail(ss))
    ELSE <<Head(ss)>> \o NonEmpty(Tail(ss))

\* the sentences of t: split at ".", "!" and "?", trimmed, the empty ones dropped
Sentences(t) ==
    LET ps == Pieces(t, <<>>)
    IN  NonEmpty([k \in 1..Len(ps) |-> Trimmed(ps[k])])

\* the sentences of a list of chunks, read in chunk order
RECURSIVE SentencesOfChunks(_)
SentencesOfChunks(cs) ==
    IF Len(cs) = 0 THEN <<>>
    ELSE Sentences(Head(cs)) \o SentencesOfChunks(Tail(cs))

IsPrefix(a, b) == Len(a) <= Len(b) /\ SubSeq(b, 1, Len(a)) = a

OutOfRange ==
    \/ speaking_rate < rate_ge
    \/ speaking_rate > rate_le
    \/ pitch < pitch_ge
    \/ pitch > pitch_le

\* the audio the remote engine returned for chunk k (0-based)
AudioFor(k) ==
    LET r == CHOOSE r \in {responses[n] : n \in 1..Len(responses)} :
                 r.chunk_index = k /\ r.status = "ok"
    IN  r.audio_content

\* the audio returned for chunks k .. n-1, concatenated in index order
RECURSIVE AudioFrom(_, _)
AudioFrom(k, n) ==
    IF k >= n THEN <<>> ELSE AudioFor(k) \o AudioFrom(k + 1, n)

RECURSIVE SumLen(_)
SumLen(ss) == IF Len(ss) = 0 THEN 0 ELSE Len(Head(ss)) + SumLen(Tail(ss))

FailedCalls == {n \in 1..Len(responses) : responses[n].status = "error"}

---------------------------------------------------------------------------
(* C1 *)

\* C1 as stated: every chunk returned by _chunk_text is at most max_chars
\* long.
C1_EveryChunkWithinLimit ==
    Chunked => \A k \in 1..Len(chunks) : Len(chunks[k]) <= max_chars

\* C1 as amended: every chunk is at most max_chars long, except a chunk
\* that consists of one sentence whose trimmed length is at least max_chars,
\* which is that sentence followed by ".".
C1_ChunkWithinLimitUnlessLongSentence ==
    Chunked =>
        \A k \in 1..Len(chunks) :
            \/ Len(chunks[k]) <= max_chars
            \/ /\ Len(Sentences(chunks[k])) = 1
               /\ Len(Sentences(chunks[k])[1]) >= max_chars
               /\ chunks[k] = Sentences(chunks[k])[1] \o <<".">>
               /\ Sentences(chunks[k])[1] \in
                      {Sentences(cleaned)[n] : n \in 1..Len(Sentences(cleaned))}

C1_Witness ==
    /\ Chunked
    /\ Len(cleaned) > max_chars
    /\ Len(chunks) >= 2
    /\ \E k \in 1..Len(chunks) : Len(Sentences(chunks[k])) = 2
    /\ \A k \in 1..Len(chunks) : Len(chunks[k]) <= max_chars

---------------------------------------------------------------------------
(* C2 *)

\* C2: a text no longer than max_chars comes back as exactly one chunk, equal
\* to the text character for character.
C2_ShortTextIsOneChunk ==
    (Chunked /\ Len(cleaned) <= max_chars) => chunks = <<cleaned>>

C2_Witness ==
    /\ Chunked
    /\ Len(cleaned) = max_chars
    /\ \E k \in 1..Len(cleaned) : cleaned[k] = "?"
    /\ chunks = <<cleaned>>

---------------------------------------------------------------------------
(* C3 *)

\* C3: the sentences of the returned chunks, read in chunk order, are exactly
\* the sentences of the input, in order.
C3_NoSentenceDropped ==
    Chunked => SentencesOfChunks(chunks) = Sentences(cleaned)

C3_Witness ==
    /\ Chunked
    /\ Len(cleaned) > max_chars
    /\ Len(chunks) >= 2
    /\ Len(Sentences(cleaned)) >= 3
    /\ \E k \in 1..Len(cleaned) : cleaned[k] = "?"

---------------------------------------------------------------------------
(* C4 (SpecMono: the chunker applied to two inputs that each hold a sentence) *)

\* C4 as stated: for two inputs a and b with len(a) <= len(b), a has no more
\* chunks than b.
C4_CountMonotoneInLength ==
    (chunks_a # <<>> /\ chunks_b # <<>> /\ Len(text_a) <= Len(text_b))
        => Len(chunks_a[1]) <= Len(chunks_b[1])

\* C4 as amended: for inputs longer than max_chars the chunk count does not
\* decrease when the input is extended: if a is a prefix of b and
\* len(a) > max_chars, a has no more chunks than b.
C4_CountMonotoneUnderExtension ==
    (chunks_a # <<>> /\ chunks_b # <<>> /\ IsPrefix(text_a, text_b)
       /\ Len(text_a) > max_chars)
        => Len(chunks_a[1]) <= Len(chunks_b[1])

C4_Witness ==
    /\ chunks_a # <<>>
    /\ chunks_b # <<>>
    /\ IsPrefix(text_a, text_b)
    /\ Len(text_a) > max_chars
    /\ Len(text_b) > Len(text_a)
    /\ Len(chunks_a[1]) >= 2
    /\ Len(chunks_a[1]) < Len(chunks_b[1])

---------------------------------------------------------------------------
(* C5 *)

\* C5: text_to_speech called with an empty or whitespace-only text raises
\* ValueError and the remote engine receives no call.
C5_BlankTextRejectedBeforeAnyCall ==
    (Began /\ \A k \in 1..Len(text) : text[k] \in Whitespace)
        => /\ pc = "raised"
           /\ error = "ValueError"
           /\ calls = <<>>
           /\ result = None

C5_Witness ==
    /\ Began
    /\ Len(text) > 0
    /\ \A k \in 1..Len(text) : text[k] \in Whitespace
    /\ error = "ValueError"

---------------------------------------------------------------------------
(* C6 *)

\* C6: when the normalized text is empty the request fails with a validation
\* error and no remote call carries an empty chunk.
C6_EmptyNormalizedTextRejected ==
    (Began /\ Len(_clean_text(text)) = 0)
        => /\ error = "ValueError"
           /\ \A n \in 1..Len(calls) : Len(calls[n].content) > 0

---------------------------------------------------------------------------
(* C7 *)

\* C7: a request whose speaking rate or pitch is out of range is rejected
\* with a validation error and no remote call is made for it, at both entry
\* points.
C7_OutOfRangeNeverReachesEngine ==
    OutOfRange
        => /\ calls = <<>>
           /\ pc # "request" => (pc = "rejected" \/ error = "ValueError")

---------------------------------------------------------------------------
(* C8 *)

\* C8: the remote engine is called once per chunk, in chunk order, and the
\* call for a chunk is issued only after the call for the chunk before it has
\* returned: at most one call is in flight.
C8_OneCallPerChunkInOrder ==
    /\ Cardinality(pending) <= 1
    /\ \A n \in 1..Len(calls) :
           /\ n <= Len(chunks)
           /\ calls[n].chunk_index = n - 1
           /\ calls[n].content = chunks[n]
    /\ \A n \in 1..Len(responses) : responses[n].chunk_index = n - 1
    /\ pending \subseteq {Len(calls) - 1}
    /\ Len(calls) = Len(responses) + Cardinality(pending)
    /\ pc = "await" => pending = {Len(calls) - 1}
    /\ pc = "returned" => (Len(calls) = Len(chunks) /\ pending = {})

C8_Witness ==
    /\ pc = "returned"
    /\ Len(chunks) >= 3
    /\ Len(calls) = 3

---------------------------------------------------------------------------
(* C9 *)

\* C9: when the remote call for chunk k fails, text_to_speech raises the
\* remote error, returns no audio, does not call again for chunk k and calls
\* for no chunk after k.
C9_RemoteFailureAbortsRequest ==
    FailedCalls # {}
        => /\ pc = "raised"
           /\ error = "RemoteEngineError"
           /\ result = None
           /\ entry = "api" => http_status = 500
           /\ pending = {}
           /\ Cardinality(FailedCalls) = 1
           /\ Len(calls) = i + 1
           /\ \A n \in 1..Len(calls) : calls[n].chunk_index = n - 1

C9_Witness ==
    /\ FailedCalls # {}
    /\ pc = "raised"
    /\ i = 1
    /\ Len(chunks) = 3
    /\ Len(audio_segments) = 1

---------------------------------------------------------------------------
(* C10 *)

\* C10: on success the result is the concatenation of the audio returned for
\* chunks 0..n-1 in chunk index order, with one segment per chunk and the
\* result's length the sum of the segments' lengths.
C10_ResultIsOrderedConcatenation ==
    pc = "returned"
        => /\ Len(audio_segments) = Len(chunks)
           /\ \A k \in 1..Len(chunks) : audio_segments[k] = AudioFor(k - 1)
           /\ result = AudioFrom(0, Len(chunks))
           /\ Len(result) = SumLen(audio_segments)

C10_Witness ==
    /\ pc = "returned"
    /\ Len(chunks) >= 2
    /\ audio_segments[1] # audio_segments[2]
    /\ entry = "direct"

---------------------------------------------------------------------------
(* C11 *)

\* the characters of t that are not whitespace, in order
RECURSIVE NonSpace(_)
NonSpace(t) ==
    IF Len(t) = 0 THEN <<>>
    ELSE IF Head(t) \in Whitespace THEN NonSpace(Tail(t))
    ELSE <<Head(t)>> \o NonSpace(Tail(t))

\* C11: for a request flagged as markup the normalizer strips no tag: the
\* text handed to the chunker holds every character of the input that is not
\* whitespace, every tag and the XML declaration included.
C11_MarkupKeepsItsTags ==
    (is_ssml /\ Chunked) => NonSpace(cleaned) = NonSpace(text)

---------------------------------------------------------------------------
(* C12 *)

\* C12: a chunk is submitted as markup exactly when the request is flagged
\* as markup and the chunk, trimmed, begins with the prolog; otherwise it is
\* submitted as plain text.
C12_MarkupOnlyWithFlagAndProlog ==
    \A n \in 1..Len(calls) :
        /\ calls[n].kind \in {"ssml", "text"}
        /\ calls[n].kind = "ssml" <=>
               (is_ssml /\ IsPrefix(Prolog, Trimmed(calls[n].content)))

C12_Witness ==
    /\ is_ssml
    /\ pc = "returned"
    /\ Len(calls) = 1
    /\ calls[1].kind = "ssml"
    /\ Len(calls[1].content) > Len(Prolog)

---------------------------------------------------------------------------
(* C13 *)

\* C13: through /generate-audio a voice identifier that is not on the
\* allow-list is only logged: text_to_speech is still entered with the
\* requested identifier, and every chunk is still sent to the remote engine
\* under it.
C13_VoiceValidationIsAdvisory ==
    (/\ entry = "api"
     /\ pc # "request"
     /\ voice_name \notin common_voices
     /\ ~OutOfRange
     /\ \E k \in 1..Len(text) : text[k] \notin Whitespace)
        => /\ warned
           /\ pc \in {"await", "returned", "raised"}
           /\ error # "ValueError"
           /\ Len(chunks) > 0 => Len(calls) >= 1
           /\ \A n \in 1..Len(calls) : calls[n].voice = voice_name
           /\ pc = "returned" => (http_status = 200 /\ Len(calls) = Len(chunks))

C13_Witness ==
    /\ entry = "api"
    /\ voice_name \notin common_voices
    /\ warned
    /\ pc = "returned"
    /\ http_status = 200
    /\ Len(calls) >= 1
    /\ calls[1].voice = voice_name

---------------------------------------------------------------------------
(* C14 (SpecConc: two calls interleaved at every awaited remote call) *)

\* the audio the engine returned to the calls of request r, in answer order
RECURSIVE OwnAudio(_)
OwnAudio(rs) ==
    IF Len(rs) = 0 THEN <<>>
    ELSE IF Head(rs).status = "ok"
         THEN <<Head(rs).audio_content>> \o OwnAudio(Tail(rs))
         ELSE OwnAudio(Tail(rs))

\* C14: for any interleaving of two text_to_speech calls on one instance,
\* every remote request of a call carries that call's own chunk, in its own
\* chunk order, with its own parameters; the segments it holds are the
\* engine's answers to its own requests; and its result is their
\* concatenation, with nothing of the other call in it.
C14_RequestsShareNoState ==
    \A r \in DOMAIN requests :
        LET f     == requests[r]
            own   == OwnAudio(conc_responses[r])
            other == ConcLetter[3 - r]
        IN  /\ \A n \in 1..Len(conc_calls[r]) :
                   /\ conc_calls[r][n].chunk_index = n - 1
                   /\ conc_calls[r][n].content = _chunk_text(_clean_text(f.text))[n]
                   /\ \A k \in 1..Len(conc_calls[r][n].content) :
                          conc_calls[r][n].content[k] # other
                   /\ conc_calls[r][n].voice = ConcParams[r].voice_name
                   /\ conc_calls[r][n].speaking_rate = ConcParams[r].speaking_rate
                   /\ conc_calls[r][n].pitch = ConcParams[r].pitch
            /\ f.pc \in {"await", "returned"} => f.audio_segments = own
            /\ f.pc = "returned" =>
                   /\ f.result = b_join(own)
                   /\ Len(own) = Len(f.chunks)
                   /\ Len(conc_calls[r]) = Len(f.chunks)
                   /\ \A k \in 1..Len(f.result) : f.result[k] \div 10 = r

\* both calls are in flight at once, each past its first chunk
C14_Witness ==
    /\ requests # <<>>
    /\ \A r \in DOMAIN requests :
           /\ requests[r].pc = "await"
           /\ requests[r].i = 1
           /\ Len(requests[r].audio_segments) = 1
           /\ Len(conc_calls[r]) = 2

---------------------------------------------------------------------------
(* C15 *)

\* C15: for an input longer than the limit, a sentence whose trimmed length
\* is at least the limit is not subdivided: one chunk is that whole sentence
\* followed by ".", longer than the limit, and that chunk is what the remote
\* engine is sent.
C15_LongSentencePassedWhole ==
    (Chunked /\ Len(cleaned) > max_chars) =>
        \A n \in 1..Len(Sentences(cleaned)) :
            Len(Sentences(cleaned)[n]) >= max_chars =>
                \E k \in 1..Len(chunks) :
                    /\ chunks[k] = Sentences(cleaned)[n] \o <<".">>
                    /\ Len(chunks[k]) > max_chars
                    /\ k <= Len(calls) => calls[k].content = chunks[k]
                    /\ pc = "returned" => k <= Len(calls)

C15_Witness ==
    /\ pc = "returned"
    /\ Len(cleaned) > max_chars
    /\ Len(chunks) = 3
    /\ Len(chunks[1]) <= max_chars
    /\ Len(chunks[2]) > max_chars + 1
    /\ calls[2].content = chunks[2]

---------------------------------------------------------------------------
(* C16 *)

\* C16: the chunker is greedy: for an input longer than the limit, a chunk
\* was closed only because the first sentence of the next chunk did not fit:
\* len(c_i) + 1 + len(first sentence of c_(i+1)) + 2 > limit.
C16_ChunkClosedOnlyWhenNextDoesNotFit ==
    (Chunked /\ Len(cleaned) > max_chars) =>
        \A k \in 1..(Len(chunks) - 1) :
            Len(chunks[k]) + 1 + Len(Sentences(chunks[k + 1])[1]) + 2 > max_chars

C16_Witness ==
    /\ Chunked
    /\ Len(cleaned) > max_chars
    /\ Len(chunks) >= 3
    /\ \A k \in 1..(Len(chunks) - 1) :
           Len(chunks[k]) + 1 + Len(Sentences(chunks[k + 1])[1]) + 2 = max_chars + 1

---------------------------------------------------------------------------
(* C17 *)

\* C17: whenever text_to_speech returns successfully the chunk list was not
\* empty and at least one remote call was made.
C17_SuccessMeansACallWasMade ==
    pc = "returned" => (Len(chunks) >= 1 /\ Len(calls) >= 1)

=============================================================================
